---------------------------- MODULE Spec2Model ----------------------------
(***************************************************************************)
(* Cube-surface navigation engine of the Mars rover: the RoverController   *)
(* state machine (face, x, y, direction), the edge-crossing transition     *)
(* table of calculateFaceTransition, and the obstacle check made before a  *)
(* move is committed.                                                      *)
(*                                                                         *)
(* The obstacle checker is an injected object; the model keeps whether one *)
(* is installed and draws the value its hasObstacle() returns for the      *)
(* queried cell from BOOLEAN, which covers every checker.                  *)
(*                                                                         *)
(* `last' and `prev' are history variables: the record of the most recent  *)
(* call on the controller and of the call before it (the state before the  *)
(* call, the result it returned, and for a move the stepped coordinate,    *)
(* the candidate and the query made to the checker).                       *)
(*                                                                         *)
(* The ObstacleManager is modelled with its generation loop, one iteration *)
(* per step: `start' holds the constructor's arguments, `generated' and    *)
(* `attempts' the loop's locals, `obstacles' the map from face to the set   *)
(* of "x,y" keys, `omPc' the position of the constructor, `omLast' the most *)
(* recent query made to the manager and `calls' the number of calls made   *)
(* in a session after construction.                                        *)
(*                                                                         *)
(* The PlanetViewer is modelled with its key handler, the animation frames *)
(* of CubePlanet and the two timeouts of the collision feedback:           *)
(* `isAnimating' is the rover's flag, `roverAnimation' the animation the   *)
(* planet holds, `collisionWarning', `showBorderPulse' and `roverState'    *)
(* the component's state, `timers' the timeouts not yet fired, `keyLast'   *)
(* the most recent key event with what the handler did for it, and `held'  *)
(* the state objects a caller of the rover holds.                          *)
(***************************************************************************)
EXTENDS Integers, FiniteSets, Sequences

VARIABLES state, obstacleChecker, last, prev,
          start, generated, attempts, obstacles, omPc, omLast, calls,
          isAnimating, roverAnimation, collisionWarning, showBorderPulse,
          timers, roverState, keyLast, held

roverVars == <<state, obstacleChecker, last, prev>>

omVars == <<start, generated, attempts, obstacles, omPc, omLast, calls>>

viewVars == <<isAnimating, roverAnimation, collisionWarning, showBorderPulse,
              timers, roverState, keyLast, held>>

vars == <<state, obstacleChecker, last, prev,
          start, generated, attempts, obstacles, omPc, omLast, calls,
          isAnimating, roverAnimation, collisionWarning, showBorderPulse,
          timers, roverState, keyLast, held>>

-----------------------------------------------------------------------------
(* Data model                                                              *)

FRONT == 0
RIGHT == 1
BACK == 2
LEFT == 3
TOP == 4
BOTTOM == 5

CubeFace == {FRONT, RIGHT, BACK, LEFT, TOP, BOTTOM}

Direction == {"N", "S", "E", "W"}

GRID_SIZE == 10

RoverState == [x : 0..(GRID_SIZE - 1), y : 0..(GRID_SIZE - 1),
               face : CubeFace, direction : Direction]

MoveResult(success, blocked, newState) ==
    [success |-> success, blocked |-> blocked, newState |-> newState]

\* the value of the obstacleChecker field: null, or some installed checker
NullChecker == "null"
InstalledChecker == "installed"

-----------------------------------------------------------------------------
(* RoverController                                                         *)

\* getState(): a copy of the state record
getState(st) ==
    [x |-> st.x, y |-> st.y, face |-> st.face, direction |-> st.direction]

\* variant: the left turn uses the clockwise map
turnLeftMap_clockwise(d) ==
    CASE d = "N" -> "E"
      [] d = "E" -> "S"
      [] d = "S" -> "W"
      [] d = "W" -> "N"

turnLeftMap(d) ==
    CASE d = "N" -> "W"
      [] d = "W" -> "S"
      [] d = "S" -> "E"
      [] d = "E" -> "N"

\* variant: the entry for S repeats the entry for W
turnRightMap_repeatedEntry(d) ==
    CASE d = "N" -> "E"
      [] d = "E" -> "S"
      [] d = "S" -> "N"
      [] d = "W" -> "N"

turnRightMap(d) ==
    CASE d = "N" -> "E"
      [] d = "E" -> "S"
      [] d = "S" -> "W"
      [] d = "W" -> "N"

\* const directions: Direction[] = ['N', 'E', 'S', 'W'] (0-based in the code)
directions == <<"N", "E", "S", "W">>

indexOf(d) ==
    IF \E i \in 0..3 : directions[i + 1] = d
    THEN CHOOSE i \in 0..3 : directions[i + 1] = d
    ELSE -1

\* variant: the steps are applied counter-clockwise
rotateDirection_counterClockwise(direction, steps) ==
    LET currentIndex == indexOf(direction)
        newIndex == (currentIndex - steps + 4) % 4
    IN directions[newIndex + 1]

\* variant: the index is not brought back into range before the remainder is
\* taken, so a step back from N indexes the array at -1
rotateDirection_noWrap(direction, steps) ==
    LET currentIndex == indexOf(direction)
        sum == currentIndex + steps
        newIndex == IF sum < 0 THEN -((-sum) % 4) ELSE sum % 4
    IN IF newIndex \in 0..3 THEN directions[newIndex + 1] ELSE "undefined"

rotateDirection(direction, steps) ==
    LET currentIndex == indexOf(direction)
        newIndex == (currentIndex + steps + 4) % 4
    IN directions[newIndex + 1]

Transition(face, x, y, direction) ==
    [face |-> face, x |-> x, y |-> y, direction |-> direction]

transitionFRONT(exitDirection, newX, newY) ==
    LET max == GRID_SIZE - 1 IN
    IF newY < 0 THEN Transition(TOP, newX, max, exitDirection)
    ELSE IF newY >= GRID_SIZE THEN Transition(BOTTOM, newX, 0, exitDirection)
    ELSE IF newX < 0 THEN Transition(LEFT, max, newY, exitDirection)
    ELSE Transition(RIGHT, 0, newY, exitDirection)

\* variant: the north exit does not mirror the coordinate (newX for max - newX)
transitionRIGHT_noMirror(exitDirection, newX, newY) ==
    LET max == GRID_SIZE - 1 IN
    IF newY < 0
    THEN Transition(TOP, max, newX, rotateDirection(exitDirection, 1))
    ELSE IF newY >= GRID_SIZE
    THEN Transition(BOTTOM, max, newX, rotateDirection(exitDirection, -1))
    ELSE IF newX < 0 THEN Transition(FRONT, max, newY, exitDirection)
    ELSE Transition(BACK, 0, newY, exitDirection)

transitionRIGHT(exitDirection, newX, newY) ==
    LET max == GRID_SIZE - 1 IN
    IF newY < 0
    THEN Transition(TOP, max, max - newX, rotateDirection(exitDirection, 1))
    ELSE IF newY >= GRID_SIZE
    THEN Transition(BOTTOM, max, newX, rotateDirection(exitDirection, -1))
    ELSE IF newX < 0 THEN Transition(FRONT, max, newY, exitDirection)
    ELSE Transition(BACK, 0, newY, exitDirection)

\* variant: the east exit leads to RIGHT, as the west exit does
transitionBACK_eastToRight(exitDirection, newX, newY) ==
    LET max == GRID_SIZE - 1 IN
    IF newY < 0
    THEN Transition(TOP, max - newX, 0, rotateDirection(exitDirection, 2))
    ELSE IF newY >= GRID_SIZE
    THEN Transition(BOTTOM, max - newX, max, rotateDirection(exitDirection, 2))
    ELSE IF newX < 0 THEN Transition(RIGHT, max, newY, exitDirection)
    ELSE Transition(RIGHT, 0, newY, exitDirection)

transitionBACK(exitDirection, newX, newY) ==
    LET max == GRID_SIZE - 1 IN
    IF newY < 0
    THEN Transition(TOP, max - newX, 0, rotateDirection(exitDirection, 2))
    ELSE IF newY >= GRID_SIZE
    THEN Transition(BOTTOM, max - newX, max, rotateDirection(exitDirection, 2))
    ELSE IF newX < 0 THEN Transition(RIGHT, max, newY, exitDirection)
    ELSE Transition(LEFT, 0, newY, exitDirection)

\* variant: the south exit swaps the remapped cell (max - newX, 0) for (0, max - newX)
transitionLEFT_swappedCell(exitDirection, newX, newY) ==
    LET max == GRID_SIZE - 1 IN
    IF newY < 0
    THEN Transition(TOP, 0, newX, rotateDirection(exitDirection, -1))
    ELSE IF newY >= GRID_SIZE
    THEN Transition(BOTTOM, max - newX, 0, rotateDirection(exitDirection, 1))
    ELSE IF newX < 0 THEN Transition(BACK, max, newY, exitDirection)
    ELSE Transition(FRONT, 0, newY, exitDirection)

transitionLEFT(exitDirection, newX, newY) ==
    LET max == GRID_SIZE - 1 IN
    IF newY < 0
    THEN Transition(TOP, 0, newX, rotateDirection(exitDirection, -1))
    ELSE IF newY >= GRID_SIZE
    THEN Transition(BOTTOM, 0, max - newX, rotateDirection(exitDirection, 1))
    ELSE IF newX < 0 THEN Transition(BACK, max, newY, exitDirection)
    ELSE Transition(FRONT, 0, newY, exitDirection)

\* variant: the west exit reuses the off-grid newX where newY is meant
transitionTOP_usesNewX(exitDirection, newX, newY) ==
    LET max == GRID_SIZE - 1 IN
    IF newY < 0
    THEN Transition(BACK, max - newX, 0, rotateDirection(exitDirection, 2))
    ELSE IF newY >= GRID_SIZE THEN Transition(FRONT, newX, 0, exitDirection)
    ELSE IF newX < 0
    THEN Transition(LEFT, newX, 0, rotateDirection(exitDirection, 1))
    ELSE Transition(RIGHT, max - newY, 0, rotateDirection(exitDirection, -1))

transitionTOP(exitDirection, newX, newY) ==
    LET max == GRID_SIZE - 1 IN
    IF newY < 0
    THEN Transition(BACK, max - newX, 0, rotateDirection(exitDirection, 2))
    ELSE IF newY >= GRID_SIZE THEN Transition(FRONT, newX, 0, exitDirection)
    ELSE IF newX < 0
    THEN Transition(LEFT, newY, 0, rotateDirection(exitDirection, 1))
    ELSE Transition(RIGHT, max - newY, 0, rotateDirection(exitDirection, -1))

\* variant: the rule of the east edge rotates by -1
transitionBOTTOM_eastMinusOne(exitDirection, newX, newY) ==
    LET max == GRID_SIZE - 1 IN
    IF newY < 0 THEN Transition(FRONT, newX, max, exitDirection)
    ELSE IF newY >= GRID_SIZE
    THEN Transition(BACK, max - newX, max, rotateDirection(exitDirection, 2))
    ELSE IF newX < 0
    THEN Transition(LEFT, max - newY, max, rotateDirection(exitDirection, -1))
    ELSE Transition(RIGHT, newY, max, rotateDirection(exitDirection, -1))

transitionBOTTOM(exitDirection, newX, newY) ==
    LET max == GRID_SIZE - 1 IN
    IF newY < 0 THEN Transition(FRONT, newX, max, exitDirection)
    ELSE IF newY >= GRID_SIZE
    THEN Transition(BACK, max - newX, max, rotateDirection(exitDirection, 2))
    ELSE IF newX < 0
    THEN Transition(LEFT, max - newY, max, rotateDirection(exitDirection, -1))
    ELSE Transition(RIGHT, newY, max, rotateDirection(exitDirection, 1))

\* the default: branch of the switch, taken when no case label matches
transitionDefault(currentFace, exitDirection, newX, newY) ==
    Transition(currentFace, newX, newY, exitDirection)

reachesDefault(currentFace) == currentFace \notin CubeFace

calculateFaceTransition(currentFace, exitDirection, newX, newY) ==
    CASE currentFace = FRONT -> transitionFRONT(exitDirection, newX, newY)
      [] currentFace = RIGHT -> transitionRIGHT(exitDirection, newX, newY)
      [] currentFace = BACK -> transitionBACK(exitDirection, newX, newY)
      [] currentFace = LEFT -> transitionLEFT(exitDirection, newX, newY)
      [] currentFace = TOP -> transitionTOP(exitDirection, newX, newY)
      [] currentFace = BOTTOM -> transitionBOTTOM(exitDirection, newX, newY)
      [] OTHER -> transitionDefault(currentFace, exitDirection, newX, newY)

\* variant: the y axis is inverted (north increases y)
intendedPosition_invertedY(x, y, direction, steps) ==
    LET forward == steps > 0 IN
    CASE direction = "N" -> [x |-> x, y |-> y + (IF forward THEN 1 ELSE -1)]
      [] direction = "S" -> [x |-> x, y |-> y + (IF forward THEN -1 ELSE 1)]
      [] direction = "E" -> [x |-> x + (IF forward THEN 1 ELSE -1), y |-> y]
      [] direction = "W" -> [x |-> x + (IF forward THEN -1 ELSE 1), y |-> y]
      [] OTHER -> [x |-> x, y |-> y]

\* variant: a backward step east or west goes the way of a forward step
intendedPosition_backwardAsForward(x, y, direction, steps) ==
    LET forward == steps > 0 IN
    CASE direction = "N" -> [x |-> x, y |-> y + (IF forward THEN -1 ELSE 1)]
      [] direction = "S" -> [x |-> x, y |-> y + (IF forward THEN 1 ELSE -1)]
      [] direction = "E" -> [x |-> x + 1, y |-> y]
      [] direction = "W" -> [x |-> x - 1, y |-> y]
      [] OTHER -> [x |-> x, y |-> y]

\* the switch on direction that computes the intended next position
intendedPosition(x, y, direction, steps) ==
    LET forward == steps > 0 IN
    CASE direction = "N" -> [x |-> x, y |-> y + (IF forward THEN -1 ELSE 1)]
      [] direction = "S" -> [x |-> x, y |-> y + (IF forward THEN 1 ELSE -1)]
      [] direction = "E" -> [x |-> x + (IF forward THEN 1 ELSE -1), y |-> y]
      [] direction = "W" -> [x |-> x + (IF forward THEN -1 ELSE 1), y |-> y]
      [] OTHER -> [x |-> x, y |-> y]

needsTransition(newX, newY) ==
    newX < 0 \/ newX >= GRID_SIZE \/ newY < 0 \/ newY >= GRID_SIZE

\* variant: an edge crossing is not remapped
candidateOf_noRemap(st, steps) ==
    LET p == intendedPosition(st.x, st.y, st.direction, steps) IN
    Transition(st.face, p.x, p.y, st.direction)

\* the candidate (newFace, newX, newY, newDirection) of a move
candidateOf(st, steps) ==
    LET p == intendedPosition(st.x, st.y, st.direction, steps) IN
    IF needsTransition(p.x, p.y)
    THEN calculateFaceTransition(st.face, st.direction, p.x, p.y)
    ELSE Transition(st.face, p.x, p.y, st.direction)

\* variant: the null guard on the checker is missing
obstacleCheck_noNullGuard(checker, answer) ==
    answer

\* variant: the checker's answer is not used
obstacleCheck_ignoresAnswer(checker, answer) ==
    FALSE

\* this.obstacleChecker && this.obstacleChecker.hasObstacle(newFace, newX, newY)
\* answer is what the installed checker returns for the candidate cell
obstacleCheck(checker, answer) ==
    checker # NullChecker /\ answer

blockedResult(st) == MoveResult(FALSE, TRUE, getState(st))

\* variant: the assignment of newDirection is missing
commit_keepsDirection(st, cand) ==
    [x |-> cand.x, y |-> cand.y, face |-> cand.face, direction |-> st.direction]

commit(st, cand) ==
    [x |-> cand.x, y |-> cand.y, face |-> cand.face, direction |-> cand.direction]

successResult(st) == MoveResult(TRUE, FALSE, getState(st))

\* variant: the new direction is assigned before the obstacle check
move_turnsWhenBlocked(st, checker, steps, answer) ==
    LET cand == candidateOf(st, steps)
        turned == [st EXCEPT !.direction = cand.direction] IN
    IF obstacleCheck(checker, answer)
    THEN [state |-> turned, result |-> blockedResult(turned)]
    ELSE LET committed == commit(st, cand) IN
         [state |-> committed, result |-> successResult(committed)]

\* move(steps): the state after the call and the result it returns
move(st, checker, steps, answer) ==
    LET cand == candidateOf(st, steps) IN
    IF obstacleCheck(checker, answer)
    THEN [state |-> st, result |-> blockedResult(st)]
    ELSE LET committed == commit(st, cand) IN
         [state |-> committed, result |-> successResult(committed)]

-----------------------------------------------------------------------------
(* ObstacleManager                                                         *)

\* OBSTACLE_DENSITY = 0.10, in percent
OBSTACLE_DENSITY_PERCENT == 10

\* GRID_SIZE * GRID_SIZE * 6
TOTAL_CELLS == GRID_SIZE * GRID_SIZE * 6

\* Math.floor(TOTAL_CELLS * OBSTACLE_DENSITY)
OBSTACLE_COUNT == (TOTAL_CELLS * OBSTACLE_DENSITY_PERCENT) \div 100

\* const maxAttempts = OBSTACLE_COUNT * 10
maxAttempts == OBSTACLE_COUNT * 10

Obstacle(face, x, y) == [face |-> face, x |-> x, y |-> y]

\* the string `${face},${x},${y}`: the three numbers, comma separated
cellKey(face, x, y) == <<face, x, y>>

\* the string `${x},${y}`
posKey(x, y) == <<x, y>>

\* variant: the parsed numbers are taken one too large
parsePos_oneBased(posStr) == [x |-> posStr[1] + 1, y |-> posStr[2] + 1]

\* const [x, y] = posStr.split(',').map(Number)
parsePos(posStr) == [x |-> posStr[1], y |-> posStr[2]]

\* new Map(): no face has an entry
EmptyMap == [f \in {} |-> {}]

\* variant: the iteration budget is not part of the loop condition
loopCondition_noBudget(size, n) ==
    size < OBSTACLE_COUNT

\* variant: the comparison with the target is <= for <
loopCondition_offByOne(size, n) ==
    size <= OBSTACLE_COUNT /\ n < maxAttempts

\* while (generated.size < OBSTACLE_COUNT && attempts < maxAttempts)
loopCondition(size, n) ==
    size < OBSTACLE_COUNT /\ n < maxAttempts

\* variant: the comparison with the start key is missing
skipSample_noStartCheck(key, startKey, gen) ==
    key \in gen

\* if (key === startKey || generated.has(key)) continue
skipSample(key, startKey, gen) ==
    key = startKey \/ key \in gen

\* variant: the face's set is created anew on every insertion
addObstacle_resetsFaceSet(obs, face, x, y) ==
    LET withFace == [f \in DOMAIN obs \cup {face} |->
                        IF f = face THEN {} ELSE obs[f]]
    IN [withFace EXCEPT ![face] = @ \cup {posKey(x, y)}]

\* if (!this.obstacles.has(face)) this.obstacles.set(face, new Set());
\* this.obstacles.get(face)!.add(`${x},${y}`)
addObstacle(obs, face, x, y) ==
    LET withFace == IF face \in DOMAIN obs
                    THEN obs
                    ELSE [f \in DOMAIN obs \cup {face} |->
                             IF f = face THEN {} ELSE obs[f]]
    IN [withFace EXCEPT ![face] = @ \cup {posKey(x, y)}]

\* variant: the key is looked up in the sets of all faces
hasObstacle_anyFace(obs, face, x, y) ==
    \E f \in DOMAIN obs : posKey(x, y) \in obs[f]

hasObstacle(obs, face, x, y) ==
    IF face \notin DOMAIN obs
    THEN FALSE
    ELSE posKey(x, y) \in obs[face]

\* the order in which a face's positions are listed (no order is promised by
\* the manager; the model lists by x, then y)
posRank(k) == k[1] * (GRID_SIZE + 2) + k[2]

RECURSIVE positionsOf(_)
positionsOf(S) ==
    IF S = {}
    THEN <<>>
    ELSE LET k == CHOOSE k \in S : \A j \in S : posRank(k) <= posRank(j)
         IN <<k>> \o positionsOf(S \ {k})

\* positions.forEach(posStr => { ...; result.push({ face, x, y }) })
obstaclesOfFace(obs, face) ==
    LET ps == positionsOf(obs[face]) IN
    [i \in 1..Len(ps) |-> Obstacle(face, parsePos(ps[i]).x, parsePos(ps[i]).y)]

RECURSIVE obstaclesOfFaces(_, _)
obstaclesOfFaces(obs, faces) ==
    IF faces = {}
    THEN <<>>
    ELSE LET f == CHOOSE f \in faces : \A g \in faces : f <= g
         IN obstaclesOfFace(obs, f) \o obstaclesOfFaces(obs, faces \ {f})

getAllObstacles(obs) == obstaclesOfFaces(obs, DOMAIN obs)

RECURSIVE countOfFaces(_, _)
countOfFaces(obs, faces) ==
    IF faces = {}
    THEN 0
    ELSE LET f == CHOOSE f \in faces : TRUE
         IN Cardinality(obs[f]) + countOfFaces(obs, faces \ {f})

\* variant: the size of the map is returned (the number of faces)
getObstacleCount_countsFaces(obs) ==
    Cardinality(DOMAIN obs)

getObstacleCount(obs) == countOfFaces(obs, DOMAIN obs)

getObstaclesForFace(obs, face) ==
    IF face \notin DOMAIN obs
    THEN <<>>
    ELSE obstaclesOfFace(obs, face)

\* variant: the lookup removes the key it finds (delete for has)
mapAfterHasObstacle_deletesKey(obs, face, x, y) ==
    IF face \in DOMAIN obs
    THEN [obs EXCEPT ![face] = @ \ {posKey(x, y)}]
    ELSE obs

\* this.obstacles after hasObstacle(face, x, y): get and has assign nothing
mapAfterHasObstacle(obs, face, x, y) == obs

-----------------------------------------------------------------------------
(* Random samples                                                          *)

\* how many of the not yet generated cells a sample may hit, and how many of
\* the already generated ones
FreshChoices == 1
DupChoices == 1

\* an enumeration of the TOTAL_CELLS cells: faces in turn, then the columns
\* from the centre column on, the row moving three down from one column to
\* the next; it begins next to the centre cell
CellAt(i) ==
    [face |-> i % 6,
     x |-> (5 + (i \div 6)) % GRID_SIZE,
     y |-> (4 + (i \div (6 * GRID_SIZE)) + 3 * ((i \div 6) % GRID_SIZE)) % GRID_SIZE]

\* face = Math.floor(Math.random() * 6) and x, y = Math.floor(Math.random() *
\* GRID_SIZE): any cell of any face
SampleSpace == [face : 0..5, x : 0..(GRID_SIZE - 1), y : 0..(GRID_SIZE - 1)]

\* the first FreshChoices cells of the enumeration that are neither generated
\* nor the start cell
FreshSamples(gen, st) ==
    LET top == IF Cardinality(gen) + FreshChoices < TOTAL_CELLS
               THEN Cardinality(gen) + FreshChoices
               ELSE TOTAL_CELLS - 1
        free == { i \in 0..top :
                    /\ cellKey(CellAt(i).face, CellAt(i).x, CellAt(i).y) \notin gen
                    /\ CellAt(i) # st }
    IN { CellAt(i) : i \in { j \in free :
                               Cardinality({ h \in free : h < j }) < FreshChoices } }

\* generated cells among the first DupChoices + 1 cells of the enumeration
DupSamples(gen) ==
    { c \in { CellAt(i) : i \in 0..DupChoices } : cellKey(c.face, c.x, c.y) \in gen }

\* the samples drawn in the model: the start cell, some generated cells and
\* some cells not yet generated
SampleChoices(gen, st) ==
    (({st} \cup DupSamples(gen)) \cap SampleSpace) \cup FreshSamples(gen, st)

\* the arguments (startFace, startX, startY) given to the constructor
StartCells ==
    { Obstacle(FRONT, 5, 5), Obstacle(TOP, 0, 0) }

\* the arguments of the queries made to the manager
QueryFaces == (-1..6) \cup {99}
QueryCoords == {-1, 0, 5, GRID_SIZE - 1, GRID_SIZE}

-----------------------------------------------------------------------------
(* History of calls                                                        *)

Call(op, pre, result, step, candidate, transition, default, queried, answer) ==
    [op |-> op, pre |-> pre, result |-> result, step |-> step,
     candidate |-> candidate, transition |-> transition, default |-> default,
     queried |-> queried, answer |-> answer]

\* a call that is not a move: no step, no candidate, no query
PlainCall(op, pre, result) ==
    Call(op, pre, result, [x |-> pre.x, y |-> pre.y], pre, FALSE, FALSE,
         FALSE, FALSE)

MoveOps == {"moveForward", "moveBackward"}
TurnOps == {"turnLeft", "turnRight"}

-----------------------------------------------------------------------------
(* Actions of the RoverController                                          *)

\* the checker is the ObstacleManager of the model
ManagerChecker == "manager"

\* what the installed checker's hasObstacle() can return for the cell: the
\* manager's answer is computed from its map, any other checker's is free
checkerAnswers(checker, cell) ==
    IF checker = ManagerChecker
    THEN {hasObstacle(obstacles, cell.face, cell.x, cell.y)}
    ELSE BOOLEAN

SetObstacleCheckerTo(checker) ==
    /\ obstacleChecker' = checker
    /\ state' = state
    /\ last' = PlainCall("setObstacleChecker", state,
                         MoveResult(TRUE, FALSE, state))
    /\ prev' = last

SetObstacleChecker == SetObstacleCheckerTo(InstalledChecker)

TurnLeft ==
    LET st == [state EXCEPT !.direction = turnLeftMap(state.direction)] IN
    /\ state' = st
    /\ last' = PlainCall("turnLeft", state, MoveResult(TRUE, FALSE, getState(st)))
    /\ prev' = last
    /\ UNCHANGED obstacleChecker

TurnRight ==
    LET st == [state EXCEPT !.direction = turnRightMap(state.direction)] IN
    /\ state' = st
    /\ last' = PlainCall("turnRight", state, MoveResult(TRUE, FALSE, getState(st)))
    /\ prev' = last
    /\ UNCHANGED obstacleChecker

Move(op, steps) ==
    \E answer \in checkerAnswers(obstacleChecker, candidateOf(state, steps)) :
        LET m == move(state, obstacleChecker, steps, answer)
            p == intendedPosition(state.x, state.y, state.direction, steps)
            t == needsTransition(p.x, p.y)
            q == obstacleChecker # NullChecker
        IN /\ state' = m.state
           /\ last' = Call(op, state, m.result, p, candidateOf(state, steps),
                           t, t /\ reachesDefault(state.face),
                           q, q /\ answer)
           /\ prev' = last
           /\ UNCHANGED obstacleChecker

MoveForward == Move("moveForward", 1)

MoveBackward == Move("moveBackward", -1)

-----------------------------------------------------------------------------
(* Actions of the ObstacleManager                                          *)

Query(op, face, x, y, found, list, count) ==
    [op |-> op, face |-> face, x |-> x, y |-> y, found |-> found,
     list |-> list, count |-> count]

NoQuery == Query("none", 0, 0, 0, FALSE, <<>>, 0)

\* new ObstacleManager(startFace, startX, startY) up to the first test of the
\* loop condition
Construct(cell) ==
    /\ start = cell
    /\ generated = {}
    /\ attempts = 0
    /\ obstacles = EmptyMap
    /\ omPc = "generating"
    /\ omLast = NoQuery

\* one iteration of the loop of generateObstacles
GenerateStep ==
    /\ omPc = "generating"
    /\ loopCondition(Cardinality(generated), attempts)
    /\ attempts' = attempts + 1
    /\ \E c \in SampleChoices(generated, start) :
           LET key == cellKey(c.face, c.x, c.y)
               startKey == cellKey(start.face, start.x, start.y)
           IN IF skipSample(key, startKey, generated)
              THEN UNCHANGED <<generated, obstacles>>
              ELSE /\ generated' = generated \cup {key}
                   /\ obstacles' = addObstacle(obstacles, c.face, c.x, c.y)
    /\ UNCHANGED <<start, omPc, omLast>>

\* the loop condition fails: generateObstacles and the constructor return,
\* and the locals `generated' and `attempts' are gone
FinishGeneration ==
    /\ omPc = "generating"
    /\ ~loopCondition(Cardinality(generated), attempts)
    /\ omPc' = "constructed"
    /\ generated' = {}
    /\ attempts' = 0
    /\ UNCHANGED <<start, obstacles, omLast>>

HasObstacle ==
    /\ omPc = "constructed"
    /\ \E face \in QueryFaces, x \in QueryCoords, y \in QueryCoords :
           /\ omLast' = Query("hasObstacle", face, x, y,
                              hasObstacle(obstacles, face, x, y), <<>>, 0)
           /\ obstacles' = mapAfterHasObstacle(obstacles, face, x, y)
    /\ UNCHANGED <<start, generated, attempts, omPc>>

GetAllObstacles ==
    /\ omPc = "constructed"
    /\ omLast' = Query("getAllObstacles", 0, 0, 0, FALSE,
                       getAllObstacles(obstacles), 0)
    /\ UNCHANGED <<start, generated, attempts, obstacles, omPc>>

GetObstacleCount ==
    /\ omPc = "constructed"
    /\ omLast' = Query("getObstacleCount", 0, 0, 0, FALSE, <<>>,
                       getObstacleCount(obstacles))
    /\ UNCHANGED <<start, generated, attempts, obstacles, omPc>>

GetObstaclesForFace ==
    /\ omPc = "constructed"
    /\ \E face \in QueryFaces :
           omLast' = Query("getObstaclesForFace", face, 0, 0, FALSE,
                           getObstaclesForFace(obstacles, face), 0)
    /\ UNCHANGED <<start, generated, attempts, obstacles, omPc>>

-----------------------------------------------------------------------------
(* PlanetViewer and the rover animation of CubePlanet                      *)

\* private roverAnimation: AnimationState | null = null
NoAnimation == [active |-> FALSE, progress |-> 0, duration |-> 0]

\* the record of a key event: the key, the operation of the rover the handler
\* called for it, whether the rover was animating when it arrived, whether
\* preventDefault was called, and whether animateRoverTo took the request
KeyEvent(k, op, busy, prevented, started) ==
    [key |-> k, op |-> op, busy |-> busy, prevented |-> prevented,
     started |-> started]

NoKey == KeyEvent("", "none", FALSE, FALSE, FALSE)

\* useState<RoverState>({ x: 5, y: 5, face: CubeFace.FRONT, direction: 'N' })
InitialRoverState == [face |-> FRONT, x |-> 5, y |-> 5, direction |-> "N"]

\* duration = 400 for a move, duration = 250 for a turn (milliseconds)
MOVE_DURATION == 400
TURN_DURATION == 250

\* the keys of the events delivered to the handler
Keys ==
    {"w", "W", "s", "S", "a", "A", "d", "D",
     "ArrowUp", "ArrowDown", "ArrowLeft", "ArrowRight", "x", "Enter"}

ArrowKeys == {"ArrowUp", "ArrowDown", "ArrowLeft", "ArrowRight"}

\* variant: the key is compared as it is
toLowerCase_identity(k) ==
    k

\* event.key.toLowerCase()
toLowerCase(k) ==
    CASE k = "W" -> "w"
      [] k = "S" -> "s"
      [] k = "A" -> "a"
      [] k = "D" -> "d"
      [] k = "ArrowUp" -> "arrowup"
      [] k = "ArrowDown" -> "arrowdown"
      [] k = "ArrowLeft" -> "arrowleft"
      [] k = "ArrowRight" -> "arrowright"
      [] k = "Enter" -> "enter"
      [] OTHER -> k

\* the switch of handleKeyDown: the operation of the rover called for a
\* lower-cased key, "none" for the default case
operationOf(lower) ==
    CASE lower \in {"w", "arrowup"} -> "moveForward"
      [] lower \in {"s", "arrowdown"} -> "moveBackward"
      [] lower \in {"a", "arrowleft"} -> "turnLeft"
      [] lower \in {"d", "arrowright"} -> "turnRight"
      [] OTHER -> "none"

durationOf(op) == IF op \in MoveOps THEN MOVE_DURATION ELSE TURN_DURATION

\* variant: the animation flag is not looked at
ignoresInput_noFlag(animating) ==
    FALSE

\* if (!roverRef.current || !planetRef.current || roverRef.current.isAnimating)
\* return; both refs are set once the viewer is mounted
ignoresInput(animating) ==
    animating

\* variant: the collision feedback is shown for every result
showsCollision_always(result) ==
    TRUE

\* if (result.blocked)
showsCollision(result) ==
    result.blocked

\* variant: the animation is started for a blocked move as well
startsAnimation_evenWhenBlocked(result) ==
    TRUE

\* else if (result.success)
startsAnimation(result) ==
    ~result.blocked /\ result.success

\* CubePlanet.animateRoverTo: the request is dropped when an animation is in
\* flight (the rover group exists once the viewer is mounted)
animateRoverTo(animation, duration) ==
    IF animation.active
    THEN animation
    ELSE [active |-> TRUE, progress |-> 0, duration |-> duration]

\* the time between two animation frames, in milliseconds
FrameDeltas == {150, 250}

\* variant: the progress is set to the frame's time, not added to
advance_notAccumulated(progress, deltaTime) ==
    deltaTime

\* this.roverAnimation.progress += deltaTime
advance(progress, deltaTime) ==
    progress + deltaTime

\* the obstacle field after n additions of the generation loop, the samples
\* being the cells of the enumeration from index i on: the map that holds,
\* for each face sampled, the keys of the cells sampled on it (the start cell
\* is skipped)
fieldFrom(st, i, n) ==
    LET last_index == IF \E j \in i..(i + n - 1) : CellAt(j) = st
                      THEN i + n
                      ELSE i + n - 1
        cells == { CellAt(j) : j \in i..last_index } \ {st}
    IN [f \in { c.face : c \in cells } |->
           { posKey(c.x, c.y) : c \in { d \in cells : d.face = f } }]

\* no PlanetViewer is mounted and no caller holds a state object
NoViewer ==
    /\ isAnimating = FALSE
    /\ roverAnimation = NoAnimation
    /\ collisionWarning = FALSE
    /\ showBorderPulse = FALSE
    /\ timers = [warning |-> 0, pulse |-> 0, particles |-> 0]
    /\ roverState = InitialRoverState
    /\ keyLast = NoKey
    /\ held = <<>>

-----------------------------------------------------------------------------
(* Specification of the RoverController alone                              *)

\* no ObstacleManager has been constructed
NoManager ==
    /\ start = Obstacle(FRONT, 0, 0)
    /\ generated = {}
    /\ attempts = 0
    /\ obstacles = EmptyMap
    /\ omPc = "none"
    /\ omLast = NoQuery
    /\ calls = 0

RoverInit ==
    /\ state \in RoverState
    /\ obstacleChecker = NullChecker
    /\ last = PlainCall("none", state, MoveResult(TRUE, FALSE, state))
    /\ prev = last

Init == RoverInit /\ NoManager /\ NoViewer

Next ==
    \/ SetObstacleChecker /\ UNCHANGED <<omVars, viewVars>>
    \/ TurnLeft /\ UNCHANGED <<omVars, viewVars>>
    \/ TurnRight /\ UNCHANGED <<omVars, viewVars>>
    \/ MoveForward /\ UNCHANGED <<omVars, viewVars>>
    \/ MoveBackward /\ UNCHANGED <<omVars, viewVars>>

Spec == Init /\ [][Next]_vars

-----------------------------------------------------------------------------
(* Specification of a RoverController constructed from any argument, well  *)
(* formed or not                                                           *)

\* how many calls are made on the rover after its construction
MaxMalformedCalls == 2

\* the initialState objects given to the constructor: faces and cells inside
\* and just outside the cube
ConstructorInputs ==
    [face : -1..6,
     x : {-1, 0, GRID_SIZE - 1, GRID_SIZE},
     y : {-1, 0, GRID_SIZE - 1, GRID_SIZE},
     direction : Direction]

\* this.state = { ...initialState }: the fields are copied as they are
construct(initialState) ==
    [face |-> initialState.face, x |-> initialState.x, y |-> initialState.y,
     direction |-> initialState.direction]

InitMalformed ==
    /\ \E initialState \in ConstructorInputs : state = construct(initialState)
    /\ obstacleChecker = NullChecker
    /\ last = PlainCall("none", state, MoveResult(TRUE, FALSE, state))
    /\ prev = last
    /\ NoManager
    /\ NoViewer

\* a call on the rover, counted
MalformedCall ==
    /\ calls < MaxMalformedCalls
    /\ calls' = calls + 1
    /\ UNCHANGED <<start, generated, attempts, obstacles, omPc, omLast, viewVars>>

MalformedSetObstacleChecker == MalformedCall /\ SetObstacleChecker

MalformedTurnLeft == MalformedCall /\ TurnLeft

MalformedTurnRight == MalformedCall /\ TurnRight

MalformedMoveForward == MalformedCall /\ MoveForward

MalformedMoveBackward == MalformedCall /\ MoveBackward

NextMalformed ==
    \/ MalformedSetObstacleChecker
    \/ MalformedTurnLeft
    \/ MalformedTurnRight
    \/ MalformedMoveForward
    \/ MalformedMoveBackward

SpecMalformed == InitMalformed /\ [][NextMalformed]_vars

-----------------------------------------------------------------------------
(* Specification of the ObstacleManager alone: construction, then queries  *)

\* no RoverController takes part
NoRover ==
    /\ state = [face |-> FRONT, x |-> 0, y |-> 0, direction |-> "N"]
    /\ obstacleChecker = NullChecker
    /\ last = PlainCall("none", state, MoveResult(TRUE, FALSE, state))
    /\ prev = last

InitObstacles ==
    /\ NoRover
    /\ NoViewer
    /\ calls = 0
    /\ \E cell \in StartCells : Construct(cell)

OmGenerateStep == GenerateStep /\ UNCHANGED <<roverVars, calls, viewVars>>

OmFinishGeneration == FinishGeneration /\ UNCHANGED <<roverVars, calls, viewVars>>

OmHasObstacle == HasObstacle /\ UNCHANGED <<roverVars, calls, viewVars>>

OmGetAllObstacles == GetAllObstacles /\ UNCHANGED <<roverVars, calls, viewVars>>

OmGetObstacleCount == GetObstacleCount /\ UNCHANGED <<roverVars, calls, viewVars>>

OmGetObstaclesForFace == GetObstaclesForFace /\ UNCHANGED <<roverVars, calls, viewVars>>

NextObstacles ==
    \/ OmGenerateStep
    \/ OmFinishGeneration
    \/ OmHasObstacle
    \/ OmGetAllObstacles
    \/ OmGetObstacleCount
    \/ OmGetObstaclesForFace

SpecObstacles == InitObstacles /\ [][NextObstacles]_vars

-----------------------------------------------------------------------------
(* Specification of a session of the viewer: it constructs the manager for *)
(* the rover's start cell, installs it as the rover's checker, and then    *)
(* the rover is driven and the manager is queried                          *)

\* how many calls are made after the checker is installed
MaxSessionCalls == 2

\* new ObstacleManager(CubeFace.FRONT, 5, 5) and
\* new RoverController({ x: 5, y: 5, face: CubeFace.FRONT, direction: 'N' })
InitSession ==
    /\ state = [face |-> FRONT, x |-> 5, y |-> 5, direction |-> "N"]
    /\ obstacleChecker = NullChecker
    /\ last = PlainCall("none", state, MoveResult(TRUE, FALSE, state))
    /\ prev = last
    /\ calls = 0
    /\ Construct(Obstacle(FRONT, 5, 5))
    /\ NoViewer

\* roverRef.current.setObstacleChecker(obstaclesRef.current)
SessionSetObstacleChecker ==
    /\ omPc = "constructed"
    /\ obstacleChecker = NullChecker
    /\ SetObstacleCheckerTo(ManagerChecker)
    /\ UNCHANGED <<omVars, viewVars>>

\* a call made in the session once the checker is installed
SessionCall ==
    /\ omPc = "constructed"
    /\ obstacleChecker = ManagerChecker
    /\ calls < MaxSessionCalls
    /\ calls' = calls + 1

SessionTurnLeft ==
    /\ SessionCall
    /\ TurnLeft
    /\ UNCHANGED <<start, generated, attempts, obstacles, omPc, omLast, viewVars>>

SessionTurnRight ==
    /\ SessionCall
    /\ TurnRight
    /\ UNCHANGED <<start, generated, attempts, obstacles, omPc, omLast, viewVars>>

\* a move of the rover, with the call of the manager's hasObstacle it makes
\* on the candidate cell
SessionMove(op, steps) ==
    LET cand == candidateOf(state, steps) IN
    /\ SessionCall
    /\ Move(op, steps)
    /\ omLast' = Query("hasObstacle", cand.face, cand.x, cand.y,
                       hasObstacle(obstacles, cand.face, cand.x, cand.y), <<>>, 0)
    /\ obstacles' = mapAfterHasObstacle(obstacles, cand.face, cand.x, cand.y)
    /\ UNCHANGED <<start, generated, attempts, omPc, viewVars>>

SessionMoveForward == SessionMove("moveForward", 1)

SessionMoveBackward == SessionMove("moveBackward", -1)

SessionHasObstacle ==
    SessionCall /\ HasObstacle /\ UNCHANGED <<roverVars, viewVars>>

SessionGetAllObstacles ==
    SessionCall /\ GetAllObstacles /\ UNCHANGED <<roverVars, viewVars>>

SessionGetObstacleCount ==
    SessionCall /\ GetObstacleCount /\ UNCHANGED <<roverVars, viewVars>>

SessionGetObstaclesForFace ==
    SessionCall /\ GetObstaclesForFace /\ UNCHANGED <<roverVars, viewVars>>

NextSession ==
    \/ OmGenerateStep
    \/ OmFinishGeneration
    \/ SessionSetObstacleChecker
    \/ SessionTurnLeft
    \/ SessionTurnRight
    \/ SessionMoveForward
    \/ SessionMoveBackward
    \/ SessionHasObstacle
    \/ SessionGetAllObstacles
    \/ SessionGetObstacleCount
    \/ SessionGetObstaclesForFace

SpecSession == InitSession /\ [][NextSession]_vars

-----------------------------------------------------------------------------
(* Specification of the mounted PlanetViewer: key events, animation frames *)
(* and the timeouts of the collision feedback, in any order                *)

\* how many key events are delivered
MaxViewerKeys == 4

\* the state when both effects of the component have run: the manager is
\* constructed for (FRONT, 5, 5) and listed, the rover is constructed at the
\* same cell and has the manager as its checker
InitViewer ==
    /\ state = construct(InitialRoverState)
    /\ obstacleChecker = ManagerChecker
    /\ prev = PlainCall("none", state, MoveResult(TRUE, FALSE, state))
    /\ last = PlainCall("setObstacleChecker", state,
                        MoveResult(TRUE, FALSE, state))
    /\ start = Obstacle(FRONT, 5, 5)
    /\ generated = {}
    /\ attempts = 0
    /\ obstacles = fieldFrom(start, 0, OBSTACLE_COUNT)
    /\ omPc = "constructed"
    /\ omLast = Query("getAllObstacles", 0, 0, 0, FALSE,
                      getAllObstacles(obstacles), 0)
    /\ calls = 0
    /\ NoViewer

\* a move of the rover whose checker is the manager: the move and the call of
\* hasObstacle it makes on the candidate cell
MoveWithManager(op, steps) ==
    LET cand == candidateOf(state, steps) IN
    /\ Move(op, steps)
    /\ omLast' = Query("hasObstacle", cand.face, cand.x, cand.y,
                       hasObstacle(obstacles, cand.face, cand.x, cand.y), <<>>, 0)
    /\ obstacles' = mapAfterHasObstacle(obstacles, cand.face, cand.x, cand.y)

\* the call the switch of handleKeyDown makes on the rover
RoverOperation(op) ==
    CASE op = "moveForward" -> MoveWithManager("moveForward", 1)
      [] op = "moveBackward" -> MoveWithManager("moveBackward", -1)
      [] op = "turnLeft" -> TurnLeft /\ UNCHANGED <<obstacles, omLast>>
      [] op = "turnRight" -> TurnRight /\ UNCHANGED <<obstacles, omLast>>

\* handleKeyDown(event) for an event with the given key
HandleKeyDown(k) ==
    LET op == operationOf(toLowerCase(k)) IN
    /\ calls < MaxViewerKeys
    /\ calls' = calls + 1
    /\ UNCHANGED <<start, generated, attempts, omPc, held>>
    /\ IF ignoresInput(isAnimating) \/ op = "none"
       THEN /\ keyLast' = KeyEvent(k, "none", isAnimating, FALSE, FALSE)
            /\ UNCHANGED <<roverVars, obstacles, omLast, isAnimating,
                           roverAnimation, collisionWarning, showBorderPulse,
                           timers, roverState>>
       ELSE /\ RoverOperation(op)
            /\ collisionWarning' =
                   IF showsCollision(last'.result) THEN TRUE ELSE collisionWarning
            /\ showBorderPulse' =
                   IF showsCollision(last'.result) THEN TRUE ELSE showBorderPulse
            /\ timers' =
                   IF showsCollision(last'.result)
                   THEN [warning |-> timers.warning + 1,
                         pulse |-> timers.pulse + 1,
                         particles |-> timers.particles + 1]
                   ELSE timers
            /\ roverState' =
                   IF startsAnimation(last'.result)
                   THEN last'.result.newState
                   ELSE roverState
            /\ isAnimating' =
                   IF startsAnimation(last'.result) THEN TRUE ELSE isAnimating
            /\ roverAnimation' =
                   IF startsAnimation(last'.result)
                   THEN animateRoverTo(roverAnimation, durationOf(op))
                   ELSE roverAnimation
            /\ keyLast' = KeyEvent(k, op, isAnimating, TRUE,
                                   startsAnimation(last'.result)
                                       /\ ~roverAnimation.active)

KeyDown == \E k \in Keys : HandleKeyDown(k)

\* CubePlanet.animate(): one frame. The rover animation advances by the time
\* since the last frame and, once its duration is reached, is removed and its
\* completion callback clears the rover's flag; particle systems that have
\* outlived their lifetime are removed
AnimationFrame ==
    /\ \E deltaTime \in FrameDeltas :
           LET progress == advance(roverAnimation.progress, deltaTime) IN
           IF ~roverAnimation.active
           THEN UNCHANGED <<roverAnimation, isAnimating>>
           ELSE IF progress >= roverAnimation.duration
                THEN /\ roverAnimation' = NoAnimation
                     /\ isAnimating' = FALSE
                ELSE /\ roverAnimation' =
                            [roverAnimation EXCEPT !.progress = progress]
                     /\ UNCHANGED isAnimating
    /\ \E n \in 0..timers.particles :
           timers' = [timers EXCEPT !.particles = n]
    /\ UNCHANGED <<roverVars, omVars, collisionWarning, showBorderPulse,
                   roverState, keyLast, held>>

\* setTimeout(() => setCollisionWarning(false), 2000) fires
WarningTimeout ==
    /\ timers.warning > 0
    /\ timers' = [timers EXCEPT !.warning = @ - 1]
    /\ collisionWarning' = FALSE
    /\ UNCHANGED <<roverVars, omVars, isAnimating, roverAnimation,
                   showBorderPulse, roverState, keyLast, held>>

\* setTimeout(() => setShowBorderPulse(false), 500) fires
PulseTimeout ==
    /\ timers.pulse > 0
    /\ timers' = [timers EXCEPT !.pulse = @ - 1]
    /\ showBorderPulse' = FALSE
    /\ UNCHANGED <<roverVars, omVars, isAnimating, roverAnimation,
                   collisionWarning, roverState, keyLast, held>>

NextViewer ==
    \/ KeyDown
    \/ AnimationFrame
    \/ WarningTimeout
    \/ PulseTimeout

SpecViewer == InitViewer /\ [][NextViewer]_vars

\* the viewer with its animation frames scheduled fairly: animate() requests
\* the next frame at every call, so a frame that has work to do is never
\* postponed for ever
SpecViewerFair ==
    InitViewer /\ [][NextViewer]_vars /\ WF_vars(AnimationFrame)

-----------------------------------------------------------------------------
(* Specification of a drive: the rover of the viewer, with the manager as  *)
(* its checker, takes turns and moves without end                          *)

\* where in the enumeration of the cells the obstacle field begins
DriveFieldOffsets == {0, 290}

InitDrive ==
    /\ state = construct(InitialRoverState)
    /\ obstacleChecker = ManagerChecker
    /\ prev = PlainCall("none", state, MoveResult(TRUE, FALSE, state))
    /\ last = PlainCall("setObstacleChecker", state,
                        MoveResult(TRUE, FALSE, state))
    /\ start = Obstacle(FRONT, 5, 5)
    /\ generated = {}
    /\ attempts = 0
    /\ \E i \in DriveFieldOffsets : obstacles = fieldFrom(start, i, OBSTACLE_COUNT)
    /\ omPc = "constructed"
    /\ omLast = Query("getAllObstacles", 0, 0, 0, FALSE,
                      getAllObstacles(obstacles), 0)
    /\ calls = 0
    /\ NoViewer

DriveTurnLeft == TurnLeft /\ UNCHANGED <<omVars, viewVars>>

DriveTurnRight == TurnRight /\ UNCHANGED <<omVars, viewVars>>

DriveMoveForward ==
    /\ MoveWithManager("moveForward", 1)
    /\ UNCHANGED <<start, generated, attempts, omPc, calls, viewVars>>

DriveMoveBackward ==
    /\ MoveWithManager("moveBackward", -1)
    /\ UNCHANGED <<start, generated, attempts, omPc, calls, viewVars>>

NextDrive ==
    \/ DriveTurnLeft
    \/ DriveTurnRight
    \/ DriveMoveForward
    \/ DriveMoveBackward

SpecDrive == InitDrive /\ [][NextDrive]_vars

-----------------------------------------------------------------------------
(* Specification of a caller of the RoverController: it constructs the     *)
(* rover from a state object, calls its public methods and accessors, and  *)
(* writes to the state objects it holds                                    *)

\* how many calls and writes the caller makes after the construction
MaxCallerCalls == 2

\* the states the rover is constructed with: the corner cells of every face,
\* every heading
CallerStates ==
    { s \in RoverState : s.x \in {0, GRID_SIZE - 1} /\ s.y \in {0, GRID_SIZE - 1} }

\* variant: the object itself is kept or handed out
spread_sameObject(st) ==
    [value |-> st, shared |-> TRUE]

\* { ...object }: an object of its own with the same fields; `shared' tells
\* whether it is the very object the rover keeps in this.state
spread(st) ==
    [value |-> st, shared |-> FALSE]

\* variant: an operation of the rover clears the flag
animatingAfterOperation_cleared(animating) ==
    FALSE

\* _isAnimating after a turn or a move: the operations do not assign it
animatingAfterOperation(animating) ==
    animating

\* the writes a caller makes to a state object it holds
Writes(st) ==
    { [st EXCEPT !.x = 99], [st EXCEPT !.face = BACK],
      [st EXCEPT !.direction = "S"] }

\* the held objects after the rover's state has become st: an object that is
\* the rover's own follows it
heldAfter(objects, st) ==
    [i \in DOMAIN objects |->
        IF objects[i].shared THEN [objects[i] EXCEPT !.value = st] ELSE objects[i]]

\* the record of a call of an accessor: `answer' is the flag read or written
AccessorCall(op, pre, value, flag) ==
    Call(op, pre, MoveResult(TRUE, FALSE, value), [x |-> pre.x, y |-> pre.y],
         pre, FALSE, FALSE, FALSE, flag)

InitCaller ==
    /\ \E initialState \in CallerStates :
           /\ state = construct(initialState)
           /\ held = <<spread(initialState)>>
    /\ obstacleChecker = NullChecker
    /\ last = PlainCall("none", state, MoveResult(TRUE, FALSE, state))
    /\ prev = last
    /\ NoManager
    /\ isAnimating = FALSE
    /\ roverAnimation = NoAnimation
    /\ collisionWarning = FALSE
    /\ showBorderPulse = FALSE
    /\ timers = [warning |-> 0, pulse |-> 0, particles |-> 0]
    /\ roverState = InitialRoverState
    /\ keyLast = NoKey

\* a call or a write of the caller, counted
CallerCall ==
    /\ calls < MaxCallerCalls
    /\ calls' = calls + 1
    /\ UNCHANGED <<start, generated, attempts, obstacles, omPc, omLast,
                   roverAnimation, collisionWarning, showBorderPulse, timers,
                   roverState, keyLast>>

CallerSetObstacleChecker ==
    /\ CallerCall
    /\ SetObstacleChecker
    /\ UNCHANGED <<isAnimating, held>>

\* a turn or a move: the caller keeps the newState object of the result
CallerOperation(A) ==
    /\ CallerCall
    /\ A
    /\ isAnimating' = animatingAfterOperation(isAnimating)
    /\ held' = Append(heldAfter(held, state'), spread(last'.result.newState))

CallerTurnLeft == CallerOperation(TurnLeft)

CallerTurnRight == CallerOperation(TurnRight)

CallerMoveForward == CallerOperation(MoveForward)

CallerMoveBackward == CallerOperation(MoveBackward)

\* rover.getState(): the caller keeps the object returned
CallerGetState ==
    /\ CallerCall
    /\ held' = Append(held, spread(state))
    /\ last' = AccessorCall("getState", state, getState(state), FALSE)
    /\ prev' = last
    /\ UNCHANGED <<state, obstacleChecker, isAnimating>>

\* the caller writes a field of an object it holds
CallerWrite ==
    /\ CallerCall
    /\ \E i \in DOMAIN held : \E written \in Writes(held[i].value) :
           /\ state' = IF held[i].shared THEN written ELSE state
           /\ held' = IF held[i].shared
                      THEN heldAfter(held, written)
                      ELSE [held EXCEPT ![i].value = written]
    /\ last' = AccessorCall("write", state, state', FALSE)
    /\ prev' = last
    /\ UNCHANGED <<obstacleChecker, isAnimating>>

\* rover.isAnimating = value
CallerSetIsAnimating ==
    /\ CallerCall
    /\ \E value \in BOOLEAN :
           /\ isAnimating' = value
           /\ last' = AccessorCall("setIsAnimating", state, state, value)
    /\ prev' = last
    /\ UNCHANGED <<state, obstacleChecker, held>>

\* rover.isAnimating
CallerGetIsAnimating ==
    /\ CallerCall
    /\ last' = AccessorCall("getIsAnimating", state, state, isAnimating)
    /\ prev' = last
    /\ UNCHANGED <<state, obstacleChecker, isAnimating, held>>

NextCaller ==
    \/ CallerSetObstacleChecker
    \/ CallerTurnLeft
    \/ CallerTurnRight
    \/ CallerMoveForward
    \/ CallerMoveBackward
    \/ CallerGetState
    \/ CallerWrite
    \/ CallerSetIsAnimating
    \/ CallerGetIsAnimating

SpecCaller == InitCaller /\ [][NextCaller]_vars

-----------------------------------------------------------------------------
(* Specification of a straight drive: a rover constructed in any state,   *)
(* with no obstacle checker, is moved forward 4*N times                    *)

\* the number of moves of a drive around the cube
DriveLength == 4 * GRID_SIZE

InitStraight ==
    /\ \E initialState \in RoverState :
           /\ state = construct(initialState)
           /\ held = <<spread(initialState)>>
    /\ obstacleChecker = NullChecker
    /\ last = PlainCall("none", state, MoveResult(TRUE, FALSE, state))
    /\ prev = last
    /\ NoManager
    /\ isAnimating = FALSE
    /\ roverAnimation = NoAnimation
    /\ collisionWarning = FALSE
    /\ showBorderPulse = FALSE
    /\ timers = [warning |-> 0, pulse |-> 0, particles |-> 0]
    /\ roverState = InitialRoverState
    /\ keyLast = NoKey

\* rover.moveForward(), counted
StraightMoveForward ==
    /\ calls < DriveLength
    /\ calls' = calls + 1
    /\ MoveForward
    /\ UNCHANGED <<start, generated, attempts, obstacles, omPc, omLast, viewVars>>

SpecStraight == InitStraight /\ [][StraightMoveForward]_vars

-----------------------------------------------------------------------------
(* Specification of the constructor's run: the loop of generateObstacles   *)
(* runs without interruption until its condition fails, so a step that is  *)
(* enabled is eventually taken                                             *)

NextGeneration ==
    \/ OmGenerateStep
    \/ OmFinishGeneration

\* new ObstacleManager(CubeFace.FRONT, 5, 5), the construction the viewer makes
InitGeneration ==
    /\ NoRover
    /\ NoViewer
    /\ calls = 0
    /\ Construct(Obstacle(FRONT, 5, 5))

SpecGeneration ==
    InitGeneration /\ [][NextGeneration]_vars /\ WF_vars(NextGeneration)

-----------------------------------------------------------------------------
(* Properties                                                              *)

\* the last call was a move that the checker blocked
LastBlocked == last.op \in MoveOps /\ last.queried /\ last.answer

\* the last call was a move that was not blocked
LastClear == last.op \in MoveOps /\ ~(last.queried /\ last.answer)

\* the last call was an unblocked move across a face edge
LastCrossed == LastClear /\ last.transition

\* the call before the last was an unblocked moveForward across a face edge
PrevCrossedForward ==
    /\ prev.op = "moveForward"
    /\ prev.transition
    /\ ~(prev.queried /\ prev.answer)

\* C1: a move whose candidate cell the checker reports blocked returns
\* success=false, blocked=true and newState equal to the pre-call state, and
\* leaves face, x, y and direction unchanged, also when the candidate lies on
\* an adjacent face.
C1_BlockedMoveInvariance ==
    LastBlocked =>
        /\ last.result = MoveResult(FALSE, TRUE, last.pre)
        /\ state = last.pre

\* a blocked edge crossing whose candidate has another face and direction
C1_Witness ==
    /\ LastBlocked
    /\ last.transition
    /\ last.candidate.face # last.pre.face
    /\ last.candidate.direction # last.pre.direction

\* C2: after any sequence of turns and moves from a valid initial state the
\* face is one of the six faces, x and y are in [0, GRID_SIZE-1], the direction
\* is one of N, E, S, W, and the default branch of calculateFaceTransition has
\* not been taken.
C2_StateInBounds ==
    /\ state \in RoverState
    /\ ~last.default
    /\ ~prev.default

\* two edge crossings in a row, the second one committed
C2_Witness ==
    /\ LastCrossed
    /\ prev.op \in MoveOps
    /\ prev.transition

\* the clockwise successor in the cycle N -> E -> S -> W -> N
Clockwise1(h) ==
    CASE h = "N" -> "E"
      [] h = "E" -> "S"
      [] h = "S" -> "W"
      [] h = "W" -> "N"

\* h rotated clockwise by k quarter turns, k in {-1, 0, 1, 2}
Clockwise(h, k) ==
    CASE k = 0 -> h
      [] k = 1 -> Clockwise1(h)
      [] k = 2 -> Clockwise1(Clockwise1(h))
      [] k = -1 -> Clockwise1(Clockwise1(Clockwise1(h)))

\* the exit edge, from the bound the stepped coordinate violates
ExitEdge(step) ==
    IF step.y < 0 THEN "N"
    ELSE IF step.y >= GRID_SIZE THEN "S"
    ELSE IF step.x < 0 THEN "W"
    ELSE "E"

Rule(to, cx, cy, delta) == [to |-> to, x |-> cx, y |-> cy, delta |-> delta]

\* the 24 rules of the specification's table (section 4.2), as data: for the
\* pre-crossing cell (x, y) the destination face, new cell and heading delta
RuleTable(face, edge, x, y) ==
    LET max == GRID_SIZE - 1 IN
    CASE face = FRONT /\ edge = "N" -> Rule(TOP, x, max, 0)
      [] face = FRONT /\ edge = "S" -> Rule(BOTTOM, x, 0, 0)
      [] face = FRONT /\ edge = "W" -> Rule(LEFT, max, y, 0)
      [] face = FRONT /\ edge = "E" -> Rule(RIGHT, 0, y, 0)
      [] face = RIGHT /\ edge = "N" -> Rule(TOP, max, max - x, 1)
      [] face = RIGHT /\ edge = "S" -> Rule(BOTTOM, max, x, -1)
      [] face = RIGHT /\ edge = "W" -> Rule(FRONT, max, y, 0)
      [] face = RIGHT /\ edge = "E" -> Rule(BACK, 0, y, 0)
      [] face = BACK /\ edge = "N" -> Rule(TOP, max - x, 0, 2)
      [] face = BACK /\ edge = "S" -> Rule(BOTTOM, max - x, max, 2)
      [] face = BACK /\ edge = "W" -> Rule(RIGHT, max, y, 0)
      [] face = BACK /\ edge = "E" -> Rule(LEFT, 0, y, 0)
      [] face = LEFT /\ edge = "N" -> Rule(TOP, 0, x, -1)
      [] face = LEFT /\ edge = "S" -> Rule(BOTTOM, 0, max - x, 1)
      [] face = LEFT /\ edge = "W" -> Rule(BACK, max, y, 0)
      [] face = LEFT /\ edge = "E" -> Rule(FRONT, 0, y, 0)
      [] face = TOP /\ edge = "N" -> Rule(BACK, max - x, 0, 2)
      [] face = TOP /\ edge = "S" -> Rule(FRONT, x, 0, 0)
      [] face = TOP /\ edge = "W" -> Rule(LEFT, y, 0, 1)
      [] face = TOP /\ edge = "E" -> Rule(RIGHT, max - y, 0, -1)
      [] face = BOTTOM /\ edge = "N" -> Rule(FRONT, x, max, 0)
      [] face = BOTTOM /\ edge = "S" -> Rule(BACK, max - x, max, 2)
      [] face = BOTTOM /\ edge = "W" -> Rule(LEFT, max - y, max, -1)
      [] face = BOTTOM /\ edge = "E" -> Rule(RIGHT, y, max, 1)

\* C3: when the unit step of a forward or backward move takes one coordinate
\* out of [0, GRID_SIZE-1], the committed face, cell and direction are those of
\* the 24-rule table for (face, exit edge), the exit edge being given by the
\* violated bound and the heading delta applied clockwise to the pre-crossing
\* direction.
C3_CrossingFollowsTable ==
    LastCrossed =>
        LET r == RuleTable(last.pre.face, ExitEdge(last.step),
                           last.pre.x, last.pre.y)
        IN /\ state.face = r.to
           /\ state.x = r.x
           /\ state.y = r.y
           /\ state.direction = Clockwise(last.pre.direction, r.delta)

\* a backward crossing (exit edge opposite to the heading) with a heading delta
C3_Witness ==
    /\ LastCrossed
    /\ last.op = "moveBackward"
    /\ ExitEdge(last.step) # last.pre.direction
    /\ state.direction # last.pre.direction

\* C4: with no obstacles, moveForward() across a face edge followed at once
\* by moveBackward() returns the rover to its pre-crossing face, cell and
\* direction.
C4_RoundTrip ==
    (PrevCrossedForward /\ last.op = "moveBackward" /\ LastClear) =>
        state = prev.pre

\* C5: after an unblocked moveForward() across a face edge, an immediately
\* following unblocked moveForward() leaves the rover on the destination face
\* (the recalculated direction points into the destination face).
C5_HeadingPointsInward ==
    (PrevCrossedForward /\ last.op = "moveForward" /\ LastClear) =>
        state.face = last.pre.face

C6_Start == [x |-> 5, y |-> 0, face |-> RIGHT, direction |-> "N"]

\* moveForward() was called at RIGHT (5,0) heading N and was not blocked
C6_Case ==
    /\ last.op = "moveForward"
    /\ last.pre = C6_Start
    /\ LastClear

\* C6 as stated: from RIGHT (5,0) heading N, moveForward() yields face TOP,
\* direction E and cell (4,9).
C6_Original ==
    C6_Case => state = [x |-> 4, y |-> 9, face |-> TOP, direction |-> "E"]

\* C6 as amended: from RIGHT (5,0) heading N, moveForward() yields face TOP,
\* direction E and cell (9,4), that is (max, max - x).
C6_RightToTop ==
    C6_Case => state = [x |-> 9, y |-> 4, face |-> TOP, direction |-> "E"]

C6_Witness == C6_Case /\ ~last.queried

\* the coordinate one step off the cell (x, y) across edge e
StepAcross(x, y, e) ==
    CASE e = "N" -> [x |-> x, y |-> y - 1]
      [] e = "S" -> [x |-> x, y |-> y + 1]
      [] e = "W" -> [x |-> x - 1, y |-> y]
      [] e = "E" -> [x |-> x + 1, y |-> y]

\* stepping off face f at cell (x, y) across edge e arrives at cell (tx, ty)
\* of face tf
Arrives(f, x, y, e, tf, tx, ty) ==
    LET o == StepAcross(x, y, e) IN
    /\ needsTransition(o.x, o.y)
    /\ LET t == calculateFaceTransition(f, e, o.x, o.y) IN
       t.face = tf /\ t.x = tx /\ t.y = ty

\* C7: cell adjacency across face edges is symmetric: if stepping off face F
\* at cell c arrives at cell c' of F', then F' has an exit edge across which
\* stepping off at c' arrives at cell c of F.
C7_AdjacencySymmetric ==
    LastCrossed =>
        \E e \in Direction :
            Arrives(state.face, state.x, state.y, e,
                    last.pre.face, last.pre.x, last.pre.y)

\* a crossing whose rule mirrors a coordinate and rotates the heading
C7_Witness ==
    /\ LastCrossed
    /\ state.direction # last.pre.direction
    /\ state.x # last.pre.x
    /\ state.y # last.pre.y
    /\ state.x # last.pre.y
    /\ state.y # last.pre.x

Opposite(f) ==
    CASE f = FRONT -> BACK
      [] f = BACK -> FRONT
      [] f = RIGHT -> LEFT
      [] f = LEFT -> RIGHT
      [] f = TOP -> BOTTOM
      [] f = BOTTOM -> TOP

\* the faces reached from face f over its four edges, at the row and column
\* of cell (x, y)
Neighbours(f, d, x, y) ==
    { calculateFaceTransition(f, d, o.x, o.y).face :
        o \in { [x |-> x, y |-> -1], [x |-> x, y |-> GRID_SIZE],
                [x |-> -1, y |-> y], [x |-> GRID_SIZE, y |-> y] } }

\* C8: the transition is total: every edge crossing yields one of the six
\* faces and a cell inside the grid, the destination face is neither the origin
\* face nor the face opposite to it, and the four edges of a face lead to four
\* distinct faces.
C8_TransitionTotal ==
    /\ LastCrossed =>
          /\ state.face \in CubeFace
          /\ state.x \in 0..(GRID_SIZE - 1)
          /\ state.y \in 0..(GRID_SIZE - 1)
          /\ state.face # last.pre.face
          /\ state.face # Opposite(last.pre.face)
    /\ LET n == Neighbours(state.face, state.direction, state.x, state.y) IN
          /\ Cardinality(n) = 4
          /\ n = CubeFace \ {state.face, Opposite(state.face)}

\* a committed crossing out of the east edge of BACK
C8_Witness ==
    /\ LastCrossed
    /\ last.pre.face = BACK
    /\ ExitEdge(last.step) = "E"

\* C9: when the candidate of a move is not reported blocked the state becomes
\* the candidate (face, x, y, direction), the result is success=true,
\* blocked=false, and result.newState equals the candidate and what getState()
\* returns next.
C9_ClearMoveCommits ==
    LastClear =>
        /\ state = last.candidate
        /\ last.result = MoveResult(TRUE, FALSE, last.candidate)
        /\ getState(state) = last.result.newState

\* a committed crossing that the installed checker let pass and that changes
\* face, cell and direction at once
C9_Witness ==
    /\ LastCrossed
    /\ last.queried
    /\ state.face # last.pre.face
    /\ state.direction # last.pre.direction
    /\ state.x # last.pre.x
    /\ state.y # last.pre.y

\* C10: a move returns blocked=true exactly when a checker is installed and
\* reports the candidate cell as an obstacle, otherwise it succeeds; every
\* result of a turn or a move has success = not blocked.
C10_FailsOnlyByBlocking ==
    /\ last.op \in MoveOps =>
          /\ last.result.blocked <=> (last.queried /\ last.answer)
          /\ last.result.success <=> ~(last.queried /\ last.answer)
    /\ last.op \in MoveOps \cup TurnOps =>
          last.result.success = ~last.result.blocked

\* a move blocked by the installed checker right after a move that the same
\* checker let pass
C10_Witness ==
    /\ last.op \in MoveOps
    /\ last.result.blocked
    /\ prev.op \in MoveOps
    /\ prev.queried
    /\ prev.result.success

\* the heading cycles of the turn operations, as data
LeftOf == [N |-> "W", W |-> "S", S |-> "E", E |-> "N"]
RightOf == [N |-> "E", E |-> "S", S |-> "W", W |-> "N"]

\* C11: turnLeft() and turnRight() return success=true, blocked=false in every
\* state and with any checker, make no query to the checker, and change only
\* the direction: turnLeft maps N->W->S->E->N, turnRight maps N->E->S->W->N;
\* face, x and y are unchanged.
C11_TurnsChangeOnlyHeading ==
    last.op \in TurnOps =>
        /\ last.result = MoveResult(TRUE, FALSE, state)
        /\ ~last.queried
        /\ state.face = last.pre.face
        /\ state.x = last.pre.x
        /\ state.y = last.pre.y
        /\ last.op = "turnLeft" => state.direction = LeftOf[last.pre.direction]
        /\ last.op = "turnRight" => state.direction = RightOf[last.pre.direction]

\* a turn made with a checker installed, right after a blocked move
C11_Witness ==
    /\ last.op \in TurnOps
    /\ obstacleChecker # NullChecker
    /\ prev.op \in MoveOps
    /\ prev.result.blocked

\* C12: turnRight() then turnLeft(), and turnLeft() then turnRight(), restore
\* the state; four consecutive turnLeft() calls, and four consecutive
\* turnRight() calls, restore the direction (two calls made, two more applied
\* to the state they left).
C12_HeadingClosure ==
    /\ (last.op = "turnLeft" /\ prev.op = "turnRight") => state = prev.pre
    /\ (last.op = "turnRight" /\ prev.op = "turnLeft") => state = prev.pre
    /\ (last.op = "turnLeft" /\ prev.op = "turnLeft") =>
          turnLeftMap(turnLeftMap(state.direction)) = prev.pre.direction
    /\ (last.op = "turnRight" /\ prev.op = "turnRight") =>
          turnRightMap(turnRightMap(state.direction)) = prev.pre.direction

\* turnRight() then turnLeft() from heading S
C12_Witness ==
    /\ last.op = "turnLeft"
    /\ prev.op = "turnRight"
    /\ prev.pre.direction = "S"

\* the change of (x, y) of one forward step along heading h
ForwardDelta(h) ==
    CASE h = "N" -> [x |-> 0, y |-> -1]
      [] h = "S" -> [x |-> 0, y |-> 1]
      [] h = "E" -> [x |-> 1, y |-> 0]
      [] h = "W" -> [x |-> -1, y |-> 0]

\* C13: an unblocked move whose stepped cell stays inside the grid leaves face
\* and direction unchanged and changes exactly one coordinate by 1:
\* moveForward gives y-1 for N, y+1 for S, x+1 for E, x-1 for W, and
\* moveBackward the opposite sign on the same axis.
C13_InFaceStep ==
    (LastClear /\ ~last.transition) =>
        LET d == ForwardDelta(last.pre.direction)
            sign == IF last.op = "moveForward" THEN 1 ELSE -1
        IN /\ state.face = last.pre.face
           /\ state.direction = last.pre.direction
           /\ state.x = last.pre.x + sign * d.x
           /\ state.y = last.pre.y + sign * d.y

\* a backward step inside a face, let pass by the installed checker
C13_Witness ==
    /\ LastClear
    /\ ~last.transition
    /\ last.op = "moveBackward"
    /\ last.queried
    /\ last.pre.direction = "N"
    /\ state.y = last.pre.y + 1

-----------------------------------------------------------------------------
(* Properties of the ObstacleManager                                       *)

\* the last query made to the manager was hasObstacle on the start cell
LastQueryOnStart ==
    /\ omLast.op = "hasObstacle"
    /\ Obstacle(omLast.face, omLast.x, omLast.y) = start

\* C14: the start cell is never generated: at every point of the generation
\* loop the key of (startFace, startX, startY) is outside `generated', the map
\* holds no obstacle on it, and hasObstacle on the start cell returns false.
C14_StartCellSafe ==
    /\ cellKey(start.face, start.x, start.y) \notin generated
    /\ ~hasObstacle(obstacles, start.face, start.x, start.y)
    /\ LastQueryOnStart => ~omLast.found

\* hasObstacle on the start cell has answered false for a manager that holds
\* obstacles on the start cell's face
C14_Witness ==
    /\ omPc = "constructed"
    /\ LastQueryOnStart
    /\ ~omLast.found
    /\ start.face \in DOMAIN obstacles
    /\ obstacles[start.face] # {}

\* C15: during generation and after it the number of obstacles is between 0
\* and the target OBSTACLE_COUNT = floor(6 * N * N * 0.10), for the loop's
\* set, for the map and for what getObstacleCount returns.
C15_CountWithinTarget ==
    /\ Cardinality(generated) \in 0..OBSTACLE_COUNT
    /\ getObstacleCount(obstacles) \in 0..OBSTACLE_COUNT
    /\ omLast.op = "getObstacleCount" => omLast.count \in 0..OBSTACLE_COUNT

\* getObstacleCount has returned the full target
C15_Witness ==
    /\ omLast.op = "getObstacleCount"
    /\ omLast.count = OBSTACLE_COUNT
    /\ OBSTACLE_COUNT = 60

\* C16: the list getAllObstacles returns holds no two entries with the same
\* (face, x, y), and every entry has a face in 0..5 and x, y in 0..N-1.
C16_ListDistinctInRange ==
    omLast.op = "getAllObstacles" =>
        /\ \A i, j \in 1..Len(omLast.list) :
               omLast.list[i] = omLast.list[j] => i = j
        /\ \A i \in 1..Len(omLast.list) :
               /\ omLast.list[i].face \in 0..5
               /\ omLast.list[i].x \in 0..(GRID_SIZE - 1)
               /\ omLast.list[i].y \in 0..(GRID_SIZE - 1)

\* getAllObstacles has returned a list of the full target length that covers
\* all six faces and reaches the last column and the last row
C16_Witness ==
    /\ omLast.op = "getAllObstacles"
    /\ Len(omLast.list) = OBSTACLE_COUNT
    /\ { omLast.list[i].face : i \in 1..Len(omLast.list) } = 0..5
    /\ \E i \in 1..Len(omLast.list) : omLast.list[i].x = GRID_SIZE - 1
    /\ \E i \in 1..Len(omLast.list) : omLast.list[i].y = GRID_SIZE - 1

\* C17: generation terminates: whatever the samples are, the loop never makes
\* more than maxAttempts = 10 * OBSTACLE_COUNT iterations, it cannot go on
\* once that many are made, and the constructor eventually returns.
C17_GenerationTerminates ==
    /\ [](attempts <= maxAttempts)
    /\ [](attempts = maxAttempts => ~ENABLED GenerateStep)
    /\ <>(omPc = "constructed")

\* the whole budget was spent on samples of the start cell: the loop is at
\* its exit with no obstacle generated
C17_Witness ==
    /\ omPc = "generating"
    /\ attempts = maxAttempts
    /\ maxAttempts = 600
    /\ generated = {}
    /\ ~loopCondition(Cardinality(generated), attempts)

\* C18: the count falls short of the target only when the budget is spent:
\* whenever the loop ends after fewer than maxAttempts iterations, the manager
\* holds exactly OBSTACLE_COUNT obstacles.
C18_ShortOnlyWhenExhausted ==
    [][(omPc = "generating" /\ omPc' = "constructed" /\ attempts < maxAttempts)
        => getObstacleCount(obstacles') = OBSTACLE_COUNT]_vars

\* the loop is at its exit with the target reached, after some samples were
\* skipped and with budget left
C18_Witness ==
    /\ omPc = "generating"
    /\ ~loopCondition(Cardinality(generated), attempts)
    /\ attempts > OBSTACLE_COUNT
    /\ attempts < maxAttempts
    /\ getObstacleCount(obstacles) = OBSTACLE_COUNT

\* the last query named a cell outside the cube: a face outside 0..5 or a
\* coordinate outside 0..N-1
LastQueryOutside ==
    \/ omLast.face \notin 0..5
    \/ omLast.x \notin 0..(GRID_SIZE - 1)
    \/ omLast.y \notin 0..(GRID_SIZE - 1)

\* C19: hasObstacle returns false for every face outside 0..5 and every x or
\* y outside 0..N-1, whatever was generated, and getObstaclesForFace returns
\* the empty list for a face outside 0..5.
C19_OutsideIsFree ==
    /\ (omLast.op = "hasObstacle" /\ LastQueryOutside) => ~omLast.found
    /\ (omLast.op = "getObstaclesForFace" /\ omLast.face \notin 0..5)
           => omLast.list = <<>>

\* hasObstacle has answered false for a cell one column beyond the last, on a
\* face of a fully populated manager that holds an obstacle in the last column
C19_Witness ==
    /\ omLast.op = "hasObstacle"
    /\ omLast.face \in DOMAIN obstacles
    /\ omLast.x = GRID_SIZE
    /\ omLast.y \in 0..(GRID_SIZE - 1)
    /\ ~omLast.found
    /\ getObstacleCount(obstacles) = OBSTACLE_COUNT
    /\ \E k \in obstacles[omLast.face] : parsePos(k).x = GRID_SIZE - 1

\* the obstacles a manager holds, as a set of (face, x, y)
ObstacleSet(obs) ==
    UNION { { Obstacle(f, parsePos(k).x, parsePos(k).y) : k \in obs[f] } :
            f \in DOMAIN obs }

\* C20: after construction the obstacle set never changes: no hasObstacle,
\* getAllObstacles, getObstaclesForFace or getObstacleCount call and no turn
\* or move of the rover, blocked or not, adds or removes an obstacle.
C20_ObstaclesImmutable ==
    [][omPc = "constructed" =>
          \/ obstacles' = obstacles
          \/ ObstacleSet(obstacles') = ObstacleSet(obstacles)]_vars

\* with the full target of obstacles, the manager has blocked a move of the
\* rover and then let the next one pass
C20_Witness ==
    /\ omPc = "constructed"
    /\ obstacleChecker = ManagerChecker
    /\ getObstacleCount(obstacles) = OBSTACLE_COUNT
    /\ prev.op \in MoveOps /\ prev.result.blocked
    /\ last.op \in MoveOps /\ last.result.success
    /\ omLast.op = "hasObstacle" /\ ~omLast.found

-----------------------------------------------------------------------------
(* Properties of construction and of the viewer                            *)

\* C21: a rover cannot exist with a face outside the six faces or a cell off
\* the grid (such a construction is rejected), so that no move resolves an
\* edge crossing through the default branch and every successful move leaves
\* the rover on one of the six faces at a cell of the grid.
C21_MalformedRejected ==
    (last.op \in MoveOps /\ last.result.success) =>
        /\ ~last.default
        /\ state \in RoverState

\* the step is the handling of a key event
KeyStep == calls' = calls + 1

\* the key of the last event is one of the eight control keys, in either case
LastKeyIsControl == operationOf(toLowerCase(keyLast.key)) # "none"

\* C22: input is suppressed during a visual transition: while isAnimating is
\* true the handler calls no operation of the rover for any key, and no step
\* (key event, animation frame, timeout) changes the rover's state.
C22_InputSuppressed ==
    [][isAnimating =>
          /\ state' = state
          /\ obstacleChecker' = obstacleChecker
          /\ KeyStep => (keyLast'.op = "none" /\ last' = last /\ prev' = prev)]_vars

\* a control key has arrived while the rover animation was in flight and has
\* been ignored
C22_Witness ==
    /\ LastKeyIsControl
    /\ keyLast.busy
    /\ keyLast.op = "none"
    /\ isAnimating
    /\ roverAnimation.active
    /\ roverAnimation.progress > 0

\* C24: the rover keeps accepting commands after hitting an obstacle: a move
\* that the viewer finds blocked leaves isAnimating false and starts no
\* animation; and when the last operation of the rover was a blocked move, the
\* next control key is passed to the rover, a turn succeeds, and a move whose
\* candidate cell holds no obstacle succeeds.
C24_AcceptsAfterBlocked ==
    [][KeyStep =>
          /\ (keyLast'.op \in MoveOps /\ last'.result.blocked) =>
                 /\ ~isAnimating'
                 /\ roverAnimation' = roverAnimation
                 /\ ~roverAnimation'.active
          /\ (last.op \in MoveOps /\ last.result.blocked
                  /\ operationOf(toLowerCase(keyLast'.key)) # "none") =>
                 /\ keyLast'.op = operationOf(toLowerCase(keyLast'.key))
                 /\ last'.op = keyLast'.op
                 /\ last'.op \in TurnOps => last'.result.success
                 /\ (/\ last'.op \in MoveOps
                     /\ ~hasObstacle(obstacles, last'.candidate.face,
                                     last'.candidate.x, last'.candidate.y))
                        => last'.result.success]_vars

\* after two blocked moves a turn key has been handled and has succeeded
C24_Witness ==
    /\ timers.warning >= 2
    /\ prev.op \in MoveOps /\ prev.result.blocked
    /\ keyLast.op \in TurnOps
    /\ last.op = keyLast.op
    /\ last.result.success
    /\ isAnimating

\* the operation the README's Commands section gives for a key
CommandOf(k) ==
    CASE k \in {"w", "W", "ArrowUp"} -> "moveForward"
      [] k \in {"s", "S", "ArrowDown"} -> "moveBackward"
      [] k \in {"a", "A", "ArrowLeft"} -> "turnLeft"
      [] k \in {"d", "D", "ArrowRight"} -> "turnRight"
      [] OTHER -> "none"

\* C25: when the rover is not animating, a key event triggers exactly the
\* operation of its key (W/ArrowUp moveForward, S/ArrowDown moveBackward,
\* A/ArrowLeft turnLeft, D/ArrowRight turnRight, letters in either case),
\* once; any other key triggers no operation and changes no state.
C25_KeyTriggersOneOperation ==
    [][(KeyStep /\ ~isAnimating) =>
          /\ keyLast'.op = CommandOf(keyLast'.key)
          /\ keyLast'.op # "none" =>
                 /\ last'.op = keyLast'.op
                 /\ last'.pre = state
                 /\ prev' = last
          /\ keyLast'.op = "none" =>
                 UNCHANGED <<roverVars, obstacles, omLast, isAnimating,
                             roverAnimation, collisionWarning, showBorderPulse,
                             timers, roverState>>]_vars

\* an upper-case letter key has moved the rover forward, right after a turn
\* to the right
C25_Witness ==
    /\ keyLast.key = "W"
    /\ keyLast.op = "moveForward"
    /\ last.op = "moveForward"
    /\ last.result.success
    /\ prev.op = "turnRight"

\* C26: the collision warning is off initially; every move the rover reports
\* as blocked switches it on, and nothing else does: a step that switches it
\* on is the handling of a key whose move was blocked.
C26_WarningOnlyWhenBlocked ==
    /\ ~collisionWarning
    /\ [][/\ (KeyStep /\ keyLast'.op \in MoveOps /\ last'.result.blocked)
                 => collisionWarning'
          /\ (collisionWarning' /\ ~collisionWarning)
                 => (KeyStep /\ keyLast'.op \in MoveOps /\ last'.result.blocked)
         ]_vars

\* the warning is on after a blocked move that followed a successful turn
C26_Witness ==
    /\ collisionWarning
    /\ keyLast.op \in MoveOps
    /\ last.result.blocked
    /\ prev.op \in TurnOps /\ prev.result.success

\* C28: for every keydown event of an arrow key, in any state of the viewer,
\* the handler calls preventDefault on the event.
C28_ArrowKeysPrevented ==
    keyLast.key \in ArrowKeys => keyLast.prevented

\* C29: with the obstacle field generated for the rover's start cell and
\* installed as the rover's checker, the cell the rover is on never holds an
\* obstacle, whatever turns and moves are made.
C29_RoverNeverOnObstacle ==
    ~hasObstacle(obstacles, state.face, state.x, state.y)

\* the rover has left its start face and has just been blocked there
C29_Witness ==
    /\ state.face # start.face
    /\ last.op \in MoveOps
    /\ last.result.blocked
    /\ hasObstacle(obstacles, last.candidate.face, last.candidate.x,
                   last.candidate.y)
    /\ getObstacleCount(obstacles) = OBSTACLE_COUNT

outcomeOf(op, st, checker, answer) ==
    CASE op = "turnLeft" ->
             LET t == [st EXCEPT !.direction = turnLeftMap(st.direction)]
             IN [state |-> t, result |-> MoveResult(TRUE, FALSE, t)]
      [] op = "turnRight" ->
             LET t == [st EXCEPT !.direction = turnRightMap(st.direction)]
             IN [state |-> t, result |-> MoveResult(TRUE, FALSE, t)]
      [] op = "moveForward" -> move(st, checker, 1, answer)
      [] op = "moveBackward" -> move(st, checker, -1, answer)

\* C23: the rover owns the animation flag and does not interpret it: the flag
\* is false on a new rover; a read returns the flag as last written and
\* changes nothing; only a write of the flag changes it, so no turn or move
\* does; and the state and the result a turn or a move leaves are those
\* computed from the state, the checker and its answer, whatever the flag is
C23_FlagNotInterpreted ==
    /\ ~isAnimating
    /\ [][KeyStep =>
            /\ isAnimating' # isAnimating => last'.op = "setIsAnimating"
            /\ last'.op = "setIsAnimating" =>
                  isAnimating' = last'.answer /\ state' = state
            /\ last'.op = "getIsAnimating" =>
                  last'.answer = isAnimating /\ state' = state
            /\ last'.op \in MoveOps \cup TurnOps =>
                  LET o == outcomeOf(last'.op, state, obstacleChecker, last'.answer)
                  IN /\ state' = o.state
                     /\ last'.result = o.result
                     /\ isAnimating' = isAnimating]_vars

\* a move was made while the flag was set by the caller, and it moved the rover
C23_Witness ==
    /\ isAnimating
    /\ prev.op = "setIsAnimating"
    /\ prev.answer
    /\ last.op = "moveForward"
    /\ last.result.success
    /\ state # last.pre

\* C27: the rover's state cannot be modified from outside: no object the
\* caller holds (the one passed to the constructor, those returned by
\* getState() and the newState of every result) is the rover's own, so only
\* a turn or a move changes the state, and getState() returns the state
C27_StateEncapsulated ==
    [][/\ \A i \in DOMAIN held' : ~held'[i].shared
       /\ state' # state => KeyStep /\ last'.op \in MoveOps \cup TurnOps
       /\ (KeyStep /\ last'.op = "getState") =>
              last'.result.newState = state /\ state' = state]_vars

\* the caller wrote x = 99 into the newState of a turn's result, and the
\* rover's state is still the one the turn left
C27_Witness ==
    /\ last.op = "write"
    /\ prev.op \in TurnOps
    /\ Len(held) = 2
    /\ held[2].value.x = 99
    /\ state = prev.result.newState
    /\ state.x # 99


\* the last key event called an operation of the rover that succeeded, so the
\* handler asked CubePlanet for an animation
AnimationRequested ==
    /\ keyLast.op # "none"
    /\ startsAnimation(last.result)

\* C31: whenever CubePlanet holds a rover animation in flight the rover's
\* isAnimating is set; so the handler never calls animateRoverTo while an
\* animation is in flight, and no request is dropped: the flag is never set
\* without an animation in flight whose completion clears it
C31_AnimationImpliesFlag ==
    /\ roverAnimation.active => isAnimating
    /\ AnimationRequested => keyLast.started
    /\ isAnimating => roverAnimation.active

\* an animation is in flight and a key event has just been ignored for it
C31_Witness ==
    /\ roverAnimation.active
    /\ roverAnimation.progress > 0
    /\ isAnimating
    /\ keyLast.busy
    /\ keyLast.op = "none"

\* C32: under fair scheduling of the animation frames, every successful turn
\* or move handled by the viewer sets isAnimating, and isAnimating is
\* eventually cleared again by the completion of the animation
C32_FlagEventuallyCleared ==
    /\ [][(KeyStep /\ keyLast'.op # "none" /\ startsAnimation(last'.result))
              => isAnimating']_vars
    /\ isAnimating ~> ~isAnimating

\* a move's animation has completed after more than one frame: the key event
\* that started it is the last one, and the flag is clear again
C32_Witness ==
    /\ keyLast.op \in MoveOps
    /\ keyLast.started
    /\ ~isAnimating
    /\ ~roverAnimation.active


\* C33: a straight drive circumnavigates the cube: with no obstacles, from
\* every state, 4*N consecutive moveForward() calls return the rover to the
\* state it was constructed with (same face, cell and direction)
C33_Circumnavigation ==
    calls = DriveLength => state = held[1].value

\* the last two calls were moves in opposite senses, neither was blocked, and
\* the first of them stayed on its face
InFaceThenBack(first, second) ==
    /\ prev.op = first
    /\ ~prev.result.blocked
    /\ ~prev.transition
    /\ last.op = second
    /\ ~last.result.blocked

\* C34: within a face, forward and backward moves are mutually inverse: with
\* no blocking, a moveForward() that stays on the face followed at once by
\* moveBackward() restores the prior state, and a moveBackward() that stays
\* on the face followed at once by moveForward() restores the prior state
C34_InFaceInverse ==
    (\/ InFaceThenBack("moveForward", "moveBackward")
     \/ InFaceThenBack("moveBackward", "moveForward")) =>
        /\ last.pre = prev.result.newState
        /\ state = prev.pre

\* a backward move inside a face changed the cell and the forward move after
\* it brought the rover back
C34_Witness ==
    /\ InFaceThenBack("moveBackward", "moveForward")
    /\ last.pre # prev.pre
    /\ last.pre.face = prev.pre.face
    /\ state = prev.pre

\* the elements of a list
Elements(list) == { list[i] : i \in DOMAIN list }

\* the faces and coordinates the queries are compared on: the six faces and
\* the grid, and one step beyond them on every side
AllFaces == -1..6

AllCoords == -1..GRID_SIZE

\* C35: the obstacle queries agree with one another on every generated set:
\* hasObstacle(f, x, y) is true exactly for the triples getAllObstacles()
\* returns, getObstaclesForFace(f) returns exactly the triples of
\* getAllObstacles() whose face is f, and getObstacleCount() is the number of
\* triples in getAllObstacles()
C35_QueriesAgree ==
    omLast.op = "getAllObstacles" =>
        LET all == Elements(omLast.list) IN
        /\ \A f \in AllFaces : \A x \in AllCoords : \A y \in AllCoords :
               hasObstacle(obstacles, f, x, y) <=> Obstacle(f, x, y) \in all
        /\ \A f \in AllFaces :
               /\ Elements(getObstaclesForFace(obstacles, f))
                      = { o \in all : o.face = f }
               /\ Len(getObstaclesForFace(obstacles, f))
                      = Cardinality({ o \in all : o.face = f })
        /\ getObstacleCount(obstacles) = Len(omLast.list)
        /\ Cardinality(all) = Len(omLast.list)

\* getAllObstacles() has listed a full set of obstacles that lie on all six
\* faces, several on each
C35_Witness ==
    /\ omLast.op = "getAllObstacles"
    /\ Len(omLast.list) = OBSTACLE_COUNT
    /\ DOMAIN obstacles = CubeFace
    /\ \A f \in CubeFace : Len(getObstaclesForFace(obstacles, f)) > 1

-----------------------------------------------------------------------------
(* Properties of the rotation of the heading                               *)

\* the position one step off the given edge of the grid, from cell (x, y)
OffEdge(edge, x, y) ==
    CASE edge = "N" -> [x |-> x, y |-> -1]
      [] edge = "S" -> [x |-> x, y |-> GRID_SIZE]
      [] edge = "W" -> [x |-> -1, y |-> y]
      [] edge = "E" -> [x |-> GRID_SIZE, y |-> y]

\* what calculateFaceTransition returns for a rover of the given heading that
\* leaves the face through the edge from cell (x, y)
CrossingOf(face, edge, heading, x, y) ==
    calculateFaceTransition(face, heading, OffEdge(edge, x, y).x,
                            OffEdge(edge, x, y).y)

\* the number of clockwise quarter turns from one heading to another
QuarterTurns(from, to) == (indexOf(to) - indexOf(from) + 4) % 4

\* the heading rotation delta of the rule of (face, edge), modulo 4, as the
\* code applies it to the given heading at the given cell
DeltaOf(face, edge, heading, x, y) ==
    QuarterTurns(heading, CrossingOf(face, edge, heading, x, y).direction)

\* the edge of the destination face whose rule leads back to the origin face
ReciprocalEdge(face, edge, heading, x, y) ==
    LET dest == CrossingOf(face, edge, heading, x, y).face IN
    CHOOSE e \in Direction : CrossingOf(dest, e, heading, x, y).face = face

\* C36: for every (face, exit edge) rule, its heading rotation delta and the
\* delta of the reciprocal rule (the rule of the destination face that leads
\* back to the origin face) sum to 0 modulo 4: for the rules of the rover's
\* face applied to its heading and cell, and for every crossing the rover
\* makes that is followed at once by the crossing back
C36_ReciprocalDeltas ==
    /\ \A edge \in Direction :
           LET dest == CrossingOf(state.face, edge, state.direction,
                                  state.x, state.y).face
               back == ReciprocalEdge(state.face, edge, state.direction,
                                      state.x, state.y)
           IN /\ \E e \in Direction :
                     CrossingOf(dest, e, state.direction, state.x, state.y).face
                         = state.face
              /\ (DeltaOf(state.face, edge, state.direction, state.x, state.y)
                  + DeltaOf(dest, back, state.direction, state.x, state.y)) % 4 = 0
    /\ (/\ prev.op \in MoveOps /\ prev.transition /\ ~prev.result.blocked
        /\ LastCrossed
        /\ state.face = prev.pre.face) =>
           (QuarterTurns(prev.pre.direction, last.pre.direction)
            + QuarterTurns(last.pre.direction, state.direction)) % 4 = 0

\* the rover left RIGHT through its north edge (a rule with delta +1) and
\* came back from TOP through the reciprocal rule (delta -1, that is 3)
C36_Witness ==
    /\ prev.op \in MoveOps /\ prev.transition /\ ~prev.result.blocked
    /\ prev.pre.face = RIGHT
    /\ ExitEdge(prev.step) = "N"
    /\ QuarterTurns(prev.pre.direction, last.pre.direction) = 1
    /\ LastCrossed
    /\ last.pre.face = TOP
    /\ ExitEdge(last.step) = "E"
    /\ QuarterTurns(last.pre.direction, state.direction) = 3
    /\ state.face = RIGHT

\* C37: rotateDirection(h, k) is a heading for every heading h and every k in
\* {-1, 0, +1, +2}, namely the one k positions on in the clockwise cycle
\* N -> E -> S -> W -> N, and it agrees with the turns: the heading after
\* turnRight is rotateDirection(h, +1), the heading after turnLeft is
\* rotateDirection(h, -1)
C37_RotateAgreesWithTurns ==
    /\ \A k \in -1..2 :
           /\ rotateDirection(state.direction, k) \in Direction
           /\ rotateDirection(state.direction, k) = Clockwise(state.direction, k)
    /\ last.op = "turnRight" =>
           state.direction = rotateDirection(last.pre.direction, 1)
    /\ last.op = "turnLeft" =>
           state.direction = rotateDirection(last.pre.direction, -1)

\* a turn to the left from N has left the rover heading W, the heading one
\* position back around the end of the cycle
C37_Witness ==
    /\ last.op = "turnLeft"
    /\ last.pre.direction = "N"
    /\ state.direction = "W"
    /\ rotateDirection("N", -1) = "W"

=============================================================================
